---- MODULE Spec2Model ----
(***************************************************************************)
(* File-change debounce / notification pipeline of                         *)
(* src/src/collection/file_watcher.py (FileWatcherService).                *)
(*                                                                         *)
(* Threads of the program:                                                 *)
(*   - the main thread, which runs start_watching and stop_watching;       *)
(*   - one watchdog Observer thread per enabled watched directory, which   *)
(*     calls _on_file_change for one event at a time;                      *)
(*   - one threading.Timer thread per started debounce timer, which runs   *)
(*     _process_pending_changes (and _send_notification_email) when its    *)
(*     delay has elapsed and it was not cancelled before.                  *)
(* The service takes no lock, so the steps of these threads interleave at  *)
(* every access to the shared dictionaries.  Time is a discrete clock in   *)
(* seconds; the steps of a handler and of a flush before the SMTP call     *)
(* take no time, the SMTP call takes any amount of time.                   *)
(***************************************************************************)
EXTENDS Integers, Sequences, FiniteSets, TLC

(***************************************************************************)
(* Bounds of the model.                                                    *)
(***************************************************************************)
MaxTime == 4
MaxEvents == 2
\* Number of processes that run a FileWatcherService on the host.
NProcs == 2
\* Number of further events, each for a path whose cooldown has not elapsed.
MaxRepeats == 1
\* Number of further events, each for a path of a batch whose send failed.
MaxLaterEvents == 1
\* Number of messages the mailbox ever holds (those of the start included).
MaxMessages == 3
\* Largest retry_attempts setting of the email service.
MaxRetries == 3

(***************************************************************************)
(* Settings (file_watching.settings of the configuration).                 *)
(***************************************************************************)
debounce_delay == 2
cooldown_seconds == 2
max_file_size_mb == 1
\* send_email_on_change as the configuration sets it (default True), and
\* whether create_email_service gave the service an email service.
DefaultSettings == [send_email_on_change |-> TRUE, email_service |-> TRUE]

BytesPerMB == 1024 * 1024

\* File sizes in bytes that the file system may hold: exactly at the limit
\* of max_file_size_mb, and 2 MB.
Sizes == {max_file_size_mb * BytesPerMB, 2 * BytesPerMB}
Absent == -1

Kinds == {"created", "modified", "moved"}
NoKind == "none"
NoTime == -1

(***************************************************************************)
(* Paths are sequences of characters, so that str.startswith is the prefix *)
(* relation on characters and not on path components.                      *)
(***************************************************************************)
StartsWith(s, p) == Len(p) <= Len(s) /\ SubSeq(s, 1, Len(p)) = p

\* os.path.abspath on an absolute path: drops a trailing separator.
AbsPath(p) == IF Len(p) > 1 /\ p[Len(p)] = "/" THEN SubSeq(p, 1, Len(p) - 1) ELSE p

DirA == <<"/", "a">>
DirB == <<"/", "b">>
DirA2 == <<"/", "a", "2">>
FileAX == <<"/", "a", "/", "x">>
FileAY == <<"/", "a", "/", "y">>
FileBX == <<"/", "b", "/", "x">>
FileA2X == <<"/", "a", "2", "/", "x">>

Files == {FileAX, FileAY, FileBX, FileA2X}
DirPaths == {DirA, DirB, DirA2}

DirConfig(p) == [path |-> p, enabled |-> TRUE, recursive |-> FALSE,
                 notify_on_change |-> TRUE, notify_email |-> TRUE]

\* Two unrelated directories.
ConfigPlain == <<DirConfig(DirA), DirConfig(DirB)>>
\* Two sibling directories, the name of one a prefix of the other's.
ConfigPrefix == <<DirConfig(DirA), DirConfig(DirA2)>>
\* The same two directories, the first one with enabled: false.
ConfigDisabled == <<[DirConfig(DirA) EXCEPT !.enabled = FALSE], DirConfig(DirA2)>>

\* The file lies in the directory tree of dir (what the observer scheduled
\* on dir reports): directly in it, or below it when the watch is recursive.
Inside(f, dir, recursive) ==
    /\ StartsWith(f, dir \o <<"/">>)
    /\ Len(f) > Len(dir) + 1
    /\ (recursive \/ \A i \in (Len(dir) + 2)..Len(f) : f[i] # "/")

\* Every accepted event starts at most one threading.Timer.
TimerIds == 1..(MaxEvents + MaxLaterEvents)
NoTimer == 0

(***************************************************************************)
(* The lock file.  Its content is text, a sequence of characters, as the   *)
(* paths are; the processes are numbered, and getpid gives the PID of each. *)
(***************************************************************************)
Procs == 1..NProcs
\* The process whose service the specification Spec follows.
ServicePid == 1
\* str(os.getpid()) of process p: the PIDs of the processes differ in their
\* number of digits.
getpid(p) == IF p = ServicePid THEN <<"7">> ELSE <<"1", "2">>
\* The text of the PID of a process that has exited (a stale lock).
DeadPid == <<"9">>
\* No lock file exists / the lock file exists and holds text.
NoFile == [exists |-> FALSE, text |-> <<>>]
File(text) == [exists |-> TRUE, text |-> text]
\* A lock file with text that int() rejects.
NotAPid == File(<<"x">>)
\* No PID has been read from the lock file.
NoPid == -1

\* int(text.strip()) on text without blanks: the text is decimal digits, and
\* their value.
Digits == <<"0", "1", "2", "3", "4", "5", "6", "7", "8", "9">>
IsInt(text) ==
    /\ Len(text) > 0
    /\ \A i \in 1..Len(text) : \E d \in 1..Len(Digits) : Digits[d] = text[i]
DigitValue(c) == (CHOOSE d \in 1..Len(Digits) : Digits[d] = c) - 1
RECURSIVE ParseInt(_)
ParseInt(text) ==
    IF text = <<>> THEN 0
    ELSE 10 * ParseInt(SubSeq(text, 1, Len(text) - 1)) + DigitValue(text[Len(text)])

\* f.write(s) at offset 0 of a file that holds text: the characters of text
\* beyond the length of s stay.
WriteAtStart(text, s) == s \o SubSeq(text, Len(s) + 1, Len(text))

VARIABLES
    now,                  \* time.time(), in seconds
    fs,                   \* the file system: size of each file, or Absent
    watched_dirs,         \* self.watched_dirs
    settings,             \* self.send_email_on_change, self.email_service (set or None)
    is_running,           \* self.is_running
    observers,            \* self.observers: indices of watched_dirs with a started Observer
    obs,                  \* per Observer thread: the _on_file_change call it is in
    pending_changes,      \* self.pending_changes
    pending_event_types,  \* self.pending_event_types
    debounce_timers,      \* self.debounce_timers
    timer_keys,           \* the keys of self.debounce_timers in the order of their insertion
    timers,               \* the threading.Timer objects and their threads
    recently_processed,   \* self.recently_processed
    nEvents,              \* number of events delivered so far
    \* What an outside observer of the run has seen (no part of the program):
    accepted_at,          \* per file: when line 185 last added it to a pending set
    accepted_kind,        \* per file: the event kind of that event
    burst_calls,          \* per file: send_email calls with it since its burst began
    gone,                 \* files deleted since they were last accepted
    owed,                 \* accepted files that no flush has taken up yet
    failed,               \* files whose last finished send_email call failed
    \* The lock file and the processes that run a FileWatcherService:
    lock_file,            \* .file_watcher.lock: whether it exists, and its text
    tasklist,             \* whether the tasklist command exists on the host
    inst,                 \* per process: where its main thread is in start_watching / stop_watching
    \* EmailAutoReplyService and the mailbox it polls:
    inbox,                \* the INBOX on the server: its messages by sequence number
    monitoring,           \* self.is_running of the auto-reply service
    initialized,          \* self.initialized
    initial_uids,         \* self.initial_uids
    processed_uids,       \* self.processed_uids
    poll_pc,              \* where the thread is in _get_new_emails, "idle" outside it
    email_ids,            \* _get_new_emails: the numbers of the search still to go through
    msg_data,             \* _get_new_emails: the message that line 261 has fetched
    new_emails,           \* the list _get_new_emails builds, then what monitor_forever has
                          \* still to reply to
    arrived,              \* history: the sender of every message, by message
    reply_calls,          \* history: per message, the number of _send_reply calls
    unread_at_first_poll, \* history: the messages that were unread at the first poll
    \* GmailSMTPService.send_email:
    retry_attempts,       \* self.retry_attempts
    send_call             \* the send_email call under way, or its result

vars == <<now, fs, watched_dirs, settings, is_running, observers, obs, pending_changes,
          pending_event_types, debounce_timers, timer_keys, timers, recently_processed,
          nEvents, accepted_at, accepted_kind, burst_calls, gone, owed, failed,
          lock_file, tasklist, inst, inbox, monitoring, initialized, initial_uids,
          processed_uids, poll_pc, email_ids, msg_data, new_emails, arrived, reply_calls,
          unread_at_first_poll,
          retry_attempts, send_call>>

\* The variables of the program that no step of the environment changes.
service == <<watched_dirs, settings, is_running, observers>>
history == <<accepted_at, accepted_kind, burst_calls, gone, owed, failed>>
lockvars == <<lock_file, tasklist, inst>>
mailvars == <<inbox, monitoring, initialized, initial_uids, processed_uids,
              poll_pc, email_ids, msg_data, new_emails, arrived, reply_calls,
              unread_at_first_poll>>
sendvars == <<retry_attempts, send_call>>

send_email_on_change == settings.send_email_on_change
email_service == settings.email_service

ObsIds == 1..2

\* pc: where the main thread of the process is in start_watching or
\* stop_watching ("idle": in neither and not running; "running": in neither
\* and is_running set; "crashed": the process has ended with an exception);
\* pid: the PID it read at line 367;
\* it, used: the iterator of line 450 (the number of entries it has passed,
\* and the size of the dict when it was made);
\* joined: the observers that line 456-457 have stopped and joined.
IdleInst == [pc |-> "idle", pid |-> NoPid, it |-> 0, used |-> 0, joined |-> {}]

\* outcome: how the last _on_file_change call of the thread ended.
IdleObs == [pc |-> "idle", path |-> <<>>, kind |-> NoKind, wdir |-> <<>>,
            timer |-> NoTimer, outcome |-> "none"]
\* end: how the timer (thread) ended, once it is dead.
\* drained: the event kinds recorded for the batch when line 224 read it
\* (kept for the properties until the body is built; no part of the program).
FreeTimer == [st |-> "free", dir |-> <<>>, deadline |-> NoTime,
              changed |-> {}, files |-> {}, kinds |-> <<>>, end |-> "none",
              drained |-> <<>>]
Dead(dir, how) == [FreeTimer EXCEPT !.st = "dead", !.dir = dir, !.end = how]

\* FileWatcherService.__init__
InitService(config, s) ==
    /\ now = 0
    /\ fs = [f \in Files |-> Absent]
    /\ watched_dirs = config
    /\ settings = s
    /\ is_running = FALSE
    /\ observers = {}
    /\ obs = [o \in ObsIds |-> IdleObs]
    /\ pending_changes = [d \in DirPaths |-> {}]
    /\ pending_event_types = [f \in Files |-> NoKind]
    /\ debounce_timers = [d \in DirPaths |-> NoTimer]
    /\ timer_keys = <<>>
    /\ timers = [t \in TimerIds |-> FreeTimer]
    /\ recently_processed = [f \in Files |-> NoTime]
    /\ nEvents = 0
    /\ accepted_at = [f \in Files |-> NoTime]
    /\ accepted_kind = [f \in Files |-> NoKind]
    /\ burst_calls = [f \in Files |-> 0]
    /\ gone = {}
    /\ owed = {}
    /\ failed = {}

InitWith(config) == InitService(config, DefaultSettings)

\* No lock file, and no other process with a FileWatcherService.
InitNoLock ==
    /\ lock_file = NoFile
    /\ tasklist = TRUE
    /\ inst = [p \in Procs |-> IdleInst]

\* No EmailAutoReplyService: an empty mailbox that nothing polls.
InitNoMail ==
    /\ inbox = <<>>
    /\ monitoring = FALSE
    /\ initialized = FALSE
    /\ initial_uids = {}
    /\ processed_uids = {}
    /\ poll_pc = "idle"
    /\ email_ids = <<>>
    /\ msg_data = <<>>
    /\ new_emails = <<>>
    /\ arrived = <<>>
    /\ reply_calls = <<>>
    /\ unread_at_first_poll = {}

\* send_email is followed only as far as its result (SendReturns): no call
\* of it is looked into.
IdleCall == [pc |-> "idle", to |-> <<>>, attachments |-> "none", attempt |-> 0,
             smtp_attempts |-> 0, status |-> "none", attempts |-> 0]

InitNoSend ==
    /\ retry_attempts = 3
    /\ send_call = IdleCall

Init == /\ InitWith(ConfigPlain) \/ InitWith(ConfigPrefix)
        /\ InitNoLock /\ InitNoMail /\ InitNoSend

\* for dir_config in self.watched_dirs: if file_path.startswith(dir_path): ...
\* The index of the first configured directory whose path is a prefix of the
\* file path, 0 when there is none.
FindWatchedDir(f) ==
    LET hits == {i \in 1..Len(watched_dirs) :
                    StartsWith(f, AbsPath(watched_dirs[i].path))}
    IN  IF hits = {} THEN 0 ELSE CHOOSE i \in hits : \A j \in hits : i <= j

\* A cooldown check with the comparison turned round.
InCooldown_Inverted(f) ==
    /\ recently_processed[f] # NoTime
    /\ now - recently_processed[f] > cooldown_seconds

\* if file_path in self.recently_processed:
\*     if current_time - last_processed < self.cooldown_seconds: return
InCooldown(f) ==
    /\ recently_processed[f] # NoTime
    /\ now - recently_processed[f] < cooldown_seconds

\* A size check that also rejects a file exactly at the limit.
TooLarge_AtLimit(size) == size >= max_file_size_mb * BytesPerMB

\* file_size_mb > self.max_file_size_mb, with file_size_mb = size / (1024 * 1024)
TooLarge(size) == size > max_file_size_mb * BytesPerMB

\* for config in self.watched_dirs: if os.path.abspath(config['path']) == watched_dir
FindDirConfig(dir) ==
    LET hits == {i \in 1..Len(watched_dirs) : AbsPath(watched_dirs[i].path) = dir}
    IN  IF hits = {} THEN 0 ELSE CHOOSE i \in hits : \A j \in hits : i <= j

\* threading.Timer(...): the next Timer object.
NewTimer == CHOOSE t \in TimerIds :
                /\ timers[t].st = "free"
                /\ \A u \in TimerIds : timers[u].st = "free" => t <= u

\* tasklist /FI "PID eq <pid>" lists the process: it is the PID of a
\* process that has not ended.
PidRunning(pid) ==
    \E p \in Procs : inst[p].pc # "crashed" /\ ParseInt(getpid(p)) = pid

\* _acquire_lock returns False (line 373): the PID read from the file is
\* that of a process that tasklist lists.  When the tasklist command does not
\* exist, subprocess.run raises FileNotFoundError after the import of line
\* 369, the except clause of line 374 catches it and the lock is taken.
LockBlocks(pid) ==
    /\ tasklist
    /\ PidRunning(pid)

\* What the observer and timer threads and the environment work on.
events == <<now, fs, obs, pending_changes, pending_event_types, debounce_timers,
            timer_keys, timers, recently_processed, nEvents, history>>
watcher == <<service, events>>

(***************************************************************************)
(* start_watching of process p, line by line: _acquire_lock, then one      *)
(* Observer per enabled directory, then is_running = True.  The variables  *)
(* is_running and observers are those of the service of process            *)
(* ServicePid; of another process the model follows the main thread only.  *)
(***************************************************************************)
\* start_watching, lines 392-401: not running, directories configured.
BeginStart(p) ==
    /\ inst[p].pc = "idle"
    /\ p = ServicePid => ~is_running
    /\ Len(watched_dirs) > 0
    /\ inst' = [inst EXCEPT ![p].pc = "exists"]
    /\ UNCHANGED <<watcher, lock_file, tasklist, mailvars, sendvars>>

\* _acquire_lock, line 363: if self.lock_file_path.exists()
LockExists(p) ==
    /\ inst[p].pc = "exists"
    /\ inst' = [inst EXCEPT ![p].pc = IF lock_file.exists THEN "read" ELSE "open"]
    /\ UNCHANGED <<watcher, lock_file, tasklist, mailvars, sendvars>>

\* _acquire_lock, lines 366-367 and 374: pid = int(f.read().strip()).  A file
\* that is gone by now raises FileNotFoundError, text that is no PID
\* ValueError; both are raised before the import of line 369 has bound the
\* local name subprocess, so the except clause of line 374 raises
\* UnboundLocalError when it evaluates subprocess.SubprocessError.  That
\* exception leaves _acquire_lock, start_watching and watch_forever (line 470
\* is outside the try block): the process ends, the lock file is as it was.
LockRead(p) ==
    /\ inst[p].pc = "read"
    /\ inst' = [inst EXCEPT ![p] =
                   IF ~lock_file.exists \/ ~IsInt(lock_file.text)
                   THEN [@ EXCEPT !.pc = "crashed"]
                   ELSE [@ EXCEPT !.pc = "tasklist", !.pid = ParseInt(lock_file.text)]]
    /\ UNCHANGED <<watcher, lock_file, tasklist, mailvars, sendvars>>

\* _acquire_lock, lines 369-375: the tasklist query on the PID read.
LockTasklist(p) ==
    /\ inst[p].pc = "tasklist"
    /\ inst' = [inst EXCEPT ![p] =
                   IF LockBlocks(inst[p].pid)
                   THEN [IdleInst EXCEPT !.pc = "refused"]
                   ELSE [IdleInst EXCEPT !.pc = "open"]]
    /\ UNCHANGED <<watcher, lock_file, tasklist, mailvars, sendvars>>

\* _acquire_lock, line 378: open(self.lock_file_path, 'w') creates the file
\* or truncates it; until the PID is written the file is empty.
LockOpen(p) ==
    /\ inst[p].pc = "open"
    /\ lock_file' = File(<<>>)
    /\ inst' = [inst EXCEPT ![p].pc = "write"]
    /\ UNCHANGED <<watcher, tasklist, mailvars, sendvars>>

\* _acquire_lock, lines 379-380: f.write(str(os.getpid())); return True.
\* The PID goes to the start of the file that line 378 opened, over what
\* another process has written there since; the file is not truncated
\* again.  When that file has been unlinked since (pc "write_unlinked"), the
\* path stays as it is.
LockWritePid(p) ==
    /\ inst[p].pc \in {"write", "write_unlinked"}
    /\ lock_file' = IF inst[p].pc = "write"
                    THEN File(WriteAtStart(lock_file.text, getpid(p)))
                    ELSE lock_file
    /\ inst' = [inst EXCEPT ![p].pc = "observers"]
    /\ UNCHANGED <<watcher, tasklist, mailvars, sendvars>>

\* The enabled directories that have no Observer yet.
NotStarted == {i \in 1..Len(watched_dirs) : watched_dirs[i].enabled /\ i \notin observers}

\* start_watching, lines 410-435, one pass of the loop that starts an
\* Observer: the next enabled directory gets its Observer thread (line 428),
\* which delivers events from then on.
StartObserver(i) ==
    /\ inst[ServicePid].pc = "observers"
    /\ i \in NotStarted
    /\ \A j \in NotStarted : i <= j
    /\ observers' = observers \cup {i}
    /\ UNCHANGED <<watched_dirs, settings, is_running, events, lockvars, mailvars, sendvars>>

\* start_watching, lines 437-440: the loop is done, self.is_running = True
SetRunning(p) ==
    /\ inst[p].pc = "observers"
    /\ p = ServicePid => NotStarted = {}
    /\ is_running' = IF p = ServicePid THEN TRUE ELSE is_running
    /\ inst' = [inst EXCEPT ![p].pc = "running"]
    /\ UNCHANGED <<watched_dirs, settings, observers, events, lock_file, tasklist,
                   mailvars, sendvars>>

\* start_watching has returned at line 404 without the lock: watch_forever
\* skips its loop and calls stop_watching, which returns at line 445.
RefusedReturns(p) ==
    /\ inst[p].pc = "refused"
    /\ inst' = [inst EXCEPT ![p].pc = "idle"]
    /\ UNCHANGED <<watcher, lock_file, tasklist, mailvars, sendvars>>

\* The Observer thread of directory o runs: started (line 428) and not
\* stopped (line 456).
Dispatching(o) == o \in observers /\ o \notin inst[ServicePid].joined

(***************************************************************************)
(* The environment deletes a file (FileChangeHandler has no on_deleted, so *)
(* no event reaches the service).                                          *)
(***************************************************************************)
FsDelete(f) ==
    /\ fs[f] # Absent
    /\ fs' = [fs EXCEPT ![f] = Absent]
    /\ gone' = gone \cup {f}
    /\ UNCHANGED <<now, service, obs, pending_changes, pending_event_types,
                   debounce_timers, timer_keys, timers, recently_processed, nEvents,
                   accepted_at, accepted_kind, burst_calls, owed, failed>>
    /\ UNCHANGED <<lockvars, mailvars, sendvars>>

(***************************************************************************)
(* FileChangeHandler.on_created / on_modified / on_moved: a file of the    *)
(* directory of observer o is written (created, modified or moved there)   *)
(* with some size, and the observer thread calls the callback for it.      *)
(***************************************************************************)
Deliver(o, f, k, size) ==
    /\ Dispatching(o)
    /\ obs[o].pc = "idle"
    /\ nEvents < MaxEvents
    /\ Inside(f, AbsPath(watched_dirs[o].path), watched_dirs[o].recursive)
    /\ fs' = [fs EXCEPT ![f] = size]
    /\ obs' = [obs EXCEPT ![o] = [IdleObs EXCEPT !.pc = "check", !.path = f, !.kind = k]]
    /\ nEvents' = nEvents + 1
    /\ UNCHANGED <<now, service, pending_changes, pending_event_types,
                   debounce_timers, timer_keys, timers, recently_processed, history>>
    /\ UNCHANGED <<lockvars, mailvars, sendvars>>

\* The checks with the cooldown test placed after the cancel of line 200: an
\* event in cooldown cancels the timer stored for its directory.
Check_CancelsTimer(o) ==
    /\ obs[o].pc = "check"
    /\ LET f == AbsPath(obs[o].path)
           d == FindWatchedDir(f)
           drop(why) == [obs EXCEPT ![o] = [IdleObs EXCEPT !.outcome = why]]
       IN  /\ obs' = CASE fs[f] = Absent   -> drop("absent")
                       [] TooLarge(fs[f])  -> drop("too_large")
                       [] d = 0            -> drop("unwatched")
                       [] InCooldown(f)    -> drop("cooldown")
                       [] OTHER -> [obs EXCEPT ![o].pc = "add", ![o].path = f,
                                               ![o].wdir = AbsPath(watched_dirs[d].path)]
           /\ timers' = IF fs[f] # Absent /\ ~TooLarge(fs[f]) /\ d # 0 /\ InCooldown(f)
                        THEN [timers EXCEPT ![debounce_timers[AbsPath(watched_dirs[d].path)]] =
                                 IF @.st = "scheduled" THEN Dead(@.dir, "cancelled") ELSE @]
                        ELSE timers
    /\ UNCHANGED <<now, fs, service, pending_changes, pending_event_types,
                   debounce_timers, timer_keys, recently_processed, nEvents, history>>
    /\ UNCHANGED <<lockvars, mailvars, sendvars>>

(***************************************************************************)
(* _on_file_change, lines 148-182: the checks that drop an event.          *)
(***************************************************************************)
Check(o) ==
    /\ obs[o].pc = "check"
    /\ LET f == AbsPath(obs[o].path)
           d == FindWatchedDir(f)
           drop(why) == [obs EXCEPT ![o] = [IdleObs EXCEPT !.outcome = why]]
       IN  obs' = CASE fs[f] = Absent   -> drop("absent")
                    [] TooLarge(fs[f])  -> drop("too_large")
                    [] d = 0            -> drop("unwatched")
                    [] InCooldown(f)    -> drop("cooldown")
                    [] OTHER -> [obs EXCEPT ![o].pc = "add", ![o].path = f,
                                            ![o].wdir = AbsPath(watched_dirs[d].path)]
    /\ UNCHANGED <<now, fs, service, pending_changes, pending_event_types,
                   debounce_timers, timer_keys, timers, recently_processed, nEvents, history>>
    /\ UNCHANGED <<lockvars, mailvars, sendvars>>

\* line 185: self.pending_changes[watched_dir].add(file_path)
AddPending(o) ==
    /\ obs[o].pc = "add"
    /\ pending_changes' = [pending_changes EXCEPT ![obs[o].wdir] = @ \cup {obs[o].path}]
    /\ obs' = [obs EXCEPT ![o].pc = "kind"]
    /\ LET f == obs[o].path
           new_burst == \/ accepted_at[f] = NoTime
                        \/ now - accepted_at[f] >= debounce_delay
       IN  /\ accepted_at' = [accepted_at EXCEPT ![f] = now]
           /\ accepted_kind' = [accepted_kind EXCEPT ![f] = obs[o].kind]
           /\ burst_calls' = IF new_burst THEN [burst_calls EXCEPT ![f] = 0]
                             ELSE burst_calls
           /\ gone' = IF fs[f] = Absent THEN gone \cup {f} ELSE gone \ {f}
           /\ owed' = owed \cup {f}
    /\ UNCHANGED <<now, fs, service, pending_event_types, debounce_timers, timer_keys, timers,
                   recently_processed, nEvents, failed>>
    /\ UNCHANGED <<lockvars, mailvars, sendvars>>

\* line 186: self.pending_event_types[file_path] = event_type
SetEventType(o) ==
    /\ obs[o].pc = "kind"
    /\ pending_event_types' = [pending_event_types EXCEPT ![obs[o].path] = obs[o].kind]
    /\ obs' = [obs EXCEPT ![o].pc = "timer"]
    /\ UNCHANGED <<now, fs, service, pending_changes, debounce_timers, timer_keys, timers,
                   recently_processed, nEvents, history>>
    /\ UNCHANGED <<lockvars, mailvars, sendvars>>

\* threading.Timer.cancel(): stops the timer if it has not fired yet.
Cancel(tm, t) ==
    IF t # NoTimer /\ tm[t].st = "scheduled"
    THEN [tm EXCEPT ![t] = Dead(tm[t].dir, "cancelled")]
    ELSE tm

\* line 199: if watched_dir in self.debounce_timers
TestTimer(o) ==
    /\ obs[o].pc = "timer"
    /\ obs' = [obs EXCEPT ![o].pc = IF debounce_timers[obs[o].wdir] # NoTimer
                                    THEN "cancel" ELSE "start"]
    /\ UNCHANGED <<now, fs, service, pending_changes, pending_event_types,
                   debounce_timers, timer_keys, timers, recently_processed, nEvents, history>>
    /\ UNCHANGED <<lockvars, mailvars, sendvars>>

\* line 200: self.debounce_timers[watched_dir].cancel().  The dict is read a
\* second time: when stop_watching has cleared it since line 199 (line 452),
\* the subscript raises KeyError and the call of _on_file_change ends there,
\* with the path recorded and no timer started for it.
CancelTimer(o) ==
    /\ obs[o].pc = "cancel"
    /\ IF debounce_timers[obs[o].wdir] # NoTimer
       THEN /\ timers' = Cancel(timers, debounce_timers[obs[o].wdir])
            /\ obs' = [obs EXCEPT ![o].pc = "start"]
       ELSE /\ timers' = timers
            /\ obs' = [obs EXCEPT ![o] = [IdleObs EXCEPT !.outcome = "KeyError"]]
    /\ UNCHANGED <<now, fs, service, pending_changes, pending_event_types,
                   debounce_timers, timer_keys, recently_processed, nEvents, history>>
    /\ UNCHANGED <<lockvars, mailvars, sendvars>>

\* lines 203-211: timer = threading.Timer(self.debounce_delay, ...); timer.start()
StartTimer(o) ==
    /\ obs[o].pc = "start"
    /\ LET t == NewTimer
       IN  /\ timers' = [timers EXCEPT
                            ![t] = [FreeTimer EXCEPT !.st = "scheduled",
                                                     !.dir = obs[o].wdir,
                                                     !.deadline = now + debounce_delay]]
           /\ obs' = [obs EXCEPT ![o].pc = "store", ![o].timer = t]
    /\ UNCHANGED <<now, fs, service, pending_changes, pending_event_types,
                   debounce_timers, timer_keys, recently_processed, nEvents, history>>
    /\ UNCHANGED <<lockvars, mailvars, sendvars>>

\* line 212: self.debounce_timers[watched_dir] = timer.  A new key goes to
\* the end of the dict, a key that is there keeps its place.
StoreTimer(o) ==
    /\ obs[o].pc = "store"
    /\ debounce_timers' = [debounce_timers EXCEPT ![obs[o].wdir] = obs[o].timer]
    /\ timer_keys' = IF debounce_timers[obs[o].wdir] = NoTimer
                     THEN Append(timer_keys, obs[o].wdir) ELSE timer_keys
    /\ obs' = [obs EXCEPT ![o] = [IdleObs EXCEPT !.outcome = "accepted"]]
    /\ UNCHANGED <<now, fs, service, pending_changes, pending_event_types, timers,
                   recently_processed, nEvents, history>>
    /\ UNCHANGED <<lockvars, mailvars, sendvars>>

(***************************************************************************)
(* threading.Timer.run: the delay has elapsed and the timer was not        *)
(* cancelled, the thread calls _process_pending_changes.                   *)
(***************************************************************************)
TimerFire(t) ==
    /\ timers[t].st = "scheduled"
    /\ now >= timers[t].deadline
    /\ timers' = [timers EXCEPT ![t].st = "snap"]
    /\ UNCHANGED <<now, fs, service, obs, pending_changes, pending_event_types,
                   debounce_timers, timer_keys, recently_processed, nEvents, history>>
    /\ UNCHANGED <<lockvars, mailvars, sendvars>>

\* _process_pending_changes, lines 221-226: changed_files = list(pending)
Snapshot(t) ==
    /\ timers[t].st = "snap"
    /\ LET changed_files == pending_changes[timers[t].dir]
       IN  timers' = [timers EXCEPT ![t] =
                        IF changed_files = {} THEN Dead(@.dir, "empty")
                        ELSE [@ EXCEPT !.st = "clear", !.changed = changed_files,
                                       !.drained = [f \in changed_files |->
                                                      pending_event_types[f]]]]
    /\ UNCHANGED <<now, fs, service, obs, pending_changes, pending_event_types,
                   debounce_timers, timer_keys, recently_processed, nEvents, history>>
    /\ UNCHANGED <<lockvars, mailvars, sendvars>>

\* line 232: existing_files = [f for f in changed_files if os.path.exists(f)]
ExistingFiles(changed_files) == {f \in changed_files : fs[f] # Absent}

\* A flush that notifies whatever the configuration says.
NotifyEnabled_Always(c) == TRUE

\* line 257: dir_config.get('notify_on_change', True) and self.send_email_on_change
NotifyEnabled(c) == watched_dirs[c].notify_on_change /\ send_email_on_change

\* _process_pending_changes, lines 229-258: clear the pending set, drop the
\* files that no longer exist, look the directory's configuration up.
ClearAndFilter(t) ==
    /\ timers[t].st = "clear"
    /\ pending_changes' = [pending_changes EXCEPT ![timers[t].dir] = {}]
    /\ LET existing_files == ExistingFiles(timers[t].changed)
           c == FindDirConfig(timers[t].dir)
           next == CASE existing_files = {} -> Dead(timers[t].dir, "vanished")
                     [] c = 0 -> Dead(timers[t].dir, "no_config")
                     [] ~NotifyEnabled(c) -> Dead(timers[t].dir, "disabled")
                     [] OTHER -> [timers[t] EXCEPT !.st = "build",
                                                    !.files = existing_files]
       IN  /\ timers' = [timers EXCEPT ![t] = next]
           /\ owed' = owed \ (timers[t].changed \ next.files)
    /\ UNCHANGED <<now, fs, service, obs, pending_event_types, debounce_timers, timer_keys,
                   recently_processed, nEvents, accepted_at, accepted_kind,
                   burst_calls, gone, failed>>
    /\ UNCHANGED <<lockvars, mailvars, sendvars>>

\* _send_notification_email, lines 269-324: build the body from the event
\* types and the current sizes of the files, then call send_email.
\* os.path.getsize raises outside the try block when a file has vanished.
BuildAndCall(t) ==
    /\ timers[t].st = "build"
    /\ LET c == FindDirConfig(timers[t].dir)
           called == /\ email_service
                     /\ watched_dirs[c].notify_email
                     /\ \A f \in timers[t].files : fs[f] # Absent
       IN  /\ timers' = [timers EXCEPT ![t] =
                CASE ~email_service -> Dead(@.dir, "no_service")
                  [] ~watched_dirs[c].notify_email -> Dead(@.dir, "no_recipient")
                  [] \E f \in timers[t].files : fs[f] = Absent -> Dead(@.dir, "crashed")
                  [] OTHER -> [@ EXCEPT !.st = "sending",
                                        !.drained = <<>>,
                                        !.kinds = [f \in timers[t].files |->
                                                     IF pending_event_types[f] = NoKind
                                                     THEN "changed"
                                                     ELSE pending_event_types[f]]]]
           /\ burst_calls' = [f \in Files |->
                                IF called /\ f \in timers[t].files /\ burst_calls[f] < 2
                                THEN burst_calls[f] + 1 ELSE burst_calls[f]]
           /\ owed' = owed \ (timers[t].files \ pending_changes[timers[t].dir])
    /\ UNCHANGED <<now, fs, service, obs, pending_changes, pending_event_types,
                   debounce_timers, timer_keys, recently_processed, nEvents, accepted_at,
                   accepted_kind, gone, failed>>
    /\ UNCHANGED <<lockvars, mailvars, sendvars>>

Outcomes == {"success", "error", "raise"}

\* A sender that on success marks every known path, not only its batch.
MarkProcessed_Everything(files, outcome) ==
    IF outcome = "success"
    THEN [f \in Files |-> now]
    ELSE recently_processed

\* lines 326-333: if result.get('status') == 'success':
\*     for file_path in changed_files: self.recently_processed[file_path] = current_time
MarkProcessed(files, outcome) ==
    IF outcome = "success"
    THEN [f \in Files |-> IF f \in files THEN now ELSE recently_processed[f]]
    ELSE recently_processed

\* _send_notification_email, lines 326-359: send_email has returned a result
\* or raised.
SendReturns(t, outcome) ==
    /\ timers[t].st = "sending"
    /\ recently_processed' = MarkProcessed(timers[t].files, outcome)
    /\ timers' = [timers EXCEPT ![t] = Dead(@.dir, outcome)]
    /\ failed' = IF outcome = "success" THEN failed \ timers[t].files
                 ELSE failed \cup timers[t].files
    /\ UNCHANGED <<now, fs, service, obs, pending_changes, pending_event_types,
                   debounce_timers, timer_keys, nEvents, accepted_at, accepted_kind,
                   burst_calls, gone, owed>>
    /\ UNCHANGED <<lockvars, mailvars, sendvars>>

(***************************************************************************)
(* One second passes.  A timer fires at its deadline; the steps of a       *)
(* handler, of a flush up to the SMTP call, and of a call of               *)
(* start_watching or stop_watching take no time.  Time is only followed    *)
(* while a timer runs, a send is in progress or a file cools down.         *)
(***************************************************************************)
Tick ==
    /\ now < MaxTime
    /\ inst[ServicePid].pc \in {"idle", "running"}
    /\ \/ \E t \in TimerIds : timers[t].st \in {"scheduled", "sending"}
       \/ \E f \in Files : InCooldown(f)
    /\ \A o \in ObsIds : obs[o].pc = "idle"
    /\ \A t \in TimerIds :
          /\ timers[t].st \notin {"snap", "clear", "build"}
          /\ timers[t].st = "scheduled" => now < timers[t].deadline
    /\ now' = now + 1
    /\ UNCHANGED <<fs, service, obs, pending_changes, pending_event_types,
                   debounce_timers, timer_keys, timers, recently_processed, nEvents, history>>
    /\ UNCHANGED <<lockvars, mailvars, sendvars>>

\* No other process competes for the lock and no lock file is left from an
\* earlier run (InitNoLock), so line 363 finds no file when the service
\* starts: the steps of _acquire_lock that read a lock file (LockRead,
\* LockTasklist, RefusedReturns) are steps of SpecLock only.
Next ==
    \/ BeginStart(ServicePid)
    \/ LockExists(ServicePid)
    \/ LockOpen(ServicePid)
    \/ LockWritePid(ServicePid)
    \/ \E i \in ObsIds : StartObserver(i)
    \/ SetRunning(ServicePid)
    \/ \E f \in Files : FsDelete(f)
    \/ \E o \in ObsIds, f \in Files, k \in Kinds, size \in Sizes : Deliver(o, f, k, size)
    \/ \E o \in ObsIds : Check(o)
    \/ \E o \in ObsIds : AddPending(o)
    \/ \E o \in ObsIds : SetEventType(o)
    \/ \E o \in ObsIds : TestTimer(o)
    \/ \E o \in ObsIds : CancelTimer(o)
    \/ \E o \in ObsIds : StartTimer(o)
    \/ \E o \in ObsIds : StoreTimer(o)
    \/ \E t \in TimerIds : TimerFire(t)
    \/ \E t \in TimerIds : Snapshot(t)
    \/ \E t \in TimerIds : ClearAndFilter(t)
    \/ \E t \in TimerIds : BuildAndCall(t)
    \/ \E t \in TimerIds, outcome \in Outcomes : SendReturns(t, outcome)
    \/ Tick

Spec == Init /\ [][Next]_vars

\* The service with a watched directory that is configured but not enabled.
InitDisabled == InitWith(ConfigDisabled) /\ InitNoLock /\ InitNoMail /\ InitNoSend

SpecDisabled == InitDisabled /\ [][Next]_vars

(***************************************************************************)
(* The service with notification switched off in one of four ways: for one *)
(* directory (notify_on_change false, or no notify_email), or for the      *)
(* service (send_email_on_change false, or no email service).              *)
(***************************************************************************)
ConfigNoNotify == <<[DirConfig(DirA) EXCEPT !.notify_on_change = FALSE], DirConfig(DirB)>>
ConfigNoRecipient == <<[DirConfig(DirA) EXCEPT !.notify_email = FALSE], DirConfig(DirB)>>

InitSilent ==
    /\ \/ InitService(ConfigNoNotify, DefaultSettings)
       \/ InitService(ConfigNoRecipient, DefaultSettings)
       \/ InitService(ConfigPlain, [DefaultSettings EXCEPT !.send_email_on_change = FALSE])
       \/ InitService(ConfigPlain, [DefaultSettings EXCEPT !.email_service = FALSE])
    /\ InitNoLock /\ InitNoMail /\ InitNoSend

SpecSilent == InitSilent /\ [][Next]_vars

(***************************************************************************)
(* The service with further events for paths in cooldown: after the        *)
(* MaxEvents events of Next, the observers deliver up to MaxRepeats events, *)
(* each for a path whose registry entry is younger than cooldown_seconds.  *)
(***************************************************************************)
DeliverRepeat(o, f, k, size) ==
    /\ Dispatching(o)
    /\ obs[o].pc = "idle"
    /\ nEvents >= MaxEvents
    /\ nEvents < MaxEvents + MaxRepeats
    /\ recently_processed[f] # NoTime
    /\ now - recently_processed[f] < cooldown_seconds
    /\ Inside(f, AbsPath(watched_dirs[o].path), watched_dirs[o].recursive)
    /\ fs' = [fs EXCEPT ![f] = size]
    /\ obs' = [obs EXCEPT ![o] = [IdleObs EXCEPT !.pc = "check", !.path = f, !.kind = k]]
    /\ nEvents' = nEvents + 1
    /\ UNCHANGED <<now, service, pending_changes, pending_event_types,
                   debounce_timers, timer_keys, timers, recently_processed, history>>
    /\ UNCHANGED <<lockvars, mailvars, sendvars>>

NextCooldown ==
    \/ Next
    \/ \E o \in ObsIds, f \in Files, k \in Kinds, size \in Sizes : DeliverRepeat(o, f, k, size)

\* Two unrelated directories: which directory records a path plays no part
\* in the cooldown check.
InitCooldown == InitWith(ConfigPlain) /\ InitNoLock /\ InitNoMail /\ InitNoSend

SpecCooldown == InitCooldown /\ [][NextCooldown]_vars

(***************************************************************************)
(* The service with a further event for a path whose send has failed:      *)
(* after the MaxEvents events of Next, the observers deliver up to         *)
(* MaxLaterEvents events, each a modification that leaves the file at the  *)
(* size limit, for a path of a batch whose send_email call returned an     *)
(* error or raised.                                                        *)
(***************************************************************************)
DeliverLater(o, f) ==
    /\ Dispatching(o)
    /\ obs[o].pc = "idle"
    /\ nEvents >= MaxEvents
    /\ nEvents < MaxEvents + MaxLaterEvents
    /\ f \in failed
    /\ Inside(f, AbsPath(watched_dirs[o].path), watched_dirs[o].recursive)
    /\ fs' = [fs EXCEPT ![f] = max_file_size_mb * BytesPerMB]
    /\ obs' = [obs EXCEPT ![o] = [IdleObs EXCEPT !.pc = "check", !.path = f,
                                                 !.kind = "modified"]]
    /\ nEvents' = nEvents + 1
    /\ UNCHANGED <<now, service, pending_changes, pending_event_types,
                   debounce_timers, timer_keys, timers, recently_processed, history>>
    /\ UNCHANGED <<lockvars, mailvars, sendvars>>

NextRetry ==
    \/ Next
    \/ \E o \in ObsIds, f \in Files : DeliverLater(o, f)

\* Two unrelated directories, so that every path is recorded under the
\* directory that holds it and every directory has one timer at a time.
InitRetry == InitWith(ConfigPlain) /\ InitNoLock /\ InitNoMail /\ InitNoSend

SpecRetry == InitRetry /\ [][NextRetry]_vars

(***************************************************************************)
(* The service with the events that are to be dropped unseen: events that *)
(* refer to directories (on_created, on_modified and on_moved return       *)
(* without calling the callback when event.is_directory is set, lines 44,  *)
(* 49, 54) and events for paths outside every watched directory.           *)
(***************************************************************************)
DeliverDirectory(o, k) ==
    /\ Dispatching(o)
    /\ obs[o].pc = "idle"
    /\ nEvents < MaxEvents
    /\ obs' = [obs EXCEPT ![o] = [IdleObs EXCEPT !.kind = k, !.outcome = "directory"]]
    /\ nEvents' = nEvents + 1
    /\ UNCHANGED <<now, fs, service, pending_changes, pending_event_types,
                   debounce_timers, timer_keys, timers, recently_processed, history>>
    /\ UNCHANGED <<lockvars, mailvars, sendvars>>

\* The callback is called with the path of a file that lies in the tree of
\* no watched directory: the handler passes event.src_path or
\* event.dest_path on as the observer reports it (lines 45, 50, 55), and
\* _on_file_change looks for its directory itself (lines 167-174).
DeliverOutside(o, f, k, size) ==
    /\ Dispatching(o)
    /\ obs[o].pc = "idle"
    /\ nEvents < MaxEvents
    /\ \A i \in 1..Len(watched_dirs) :
          ~Inside(f, AbsPath(watched_dirs[i].path), TRUE)
    /\ fs' = [fs EXCEPT ![f] = size]
    /\ obs' = [obs EXCEPT ![o] = [IdleObs EXCEPT !.pc = "check", !.path = f, !.kind = k]]
    /\ nEvents' = nEvents + 1
    /\ UNCHANGED <<now, service, pending_changes, pending_event_types,
                   debounce_timers, timer_keys, timers, recently_processed, history>>
    /\ UNCHANGED <<lockvars, mailvars, sendvars>>

NextDrop ==
    \/ Next
    \/ \E o \in ObsIds, k \in Kinds : DeliverDirectory(o, k)
    \/ \E o \in ObsIds, f \in Files, k \in Kinds, size \in Sizes : DeliverOutside(o, f, k, size)

SpecDrop == Init /\ [][NextDrop]_vars

(***************************************************************************)
(* The service with stop_watching, called by the main thread while the     *)
(* observer and timer threads run, line by line.                           *)
(***************************************************************************)
\* stop_watching, lines 444-450: the service runs; the for statement makes
\* the iterator of self.debounce_timers.values().
StopBegin ==
    /\ inst[ServicePid].pc = "running"
    /\ is_running
    /\ inst' = [inst EXCEPT ![ServicePid].pc = "cancel",
                            ![ServicePid].it = 0,
                            ![ServicePid].used = Len(timer_keys)]
    /\ UNCHANGED <<watcher, lock_file, tasklist, mailvars, sendvars>>

\* stop_watching, lines 450-451, one step of the loop: the iterator raises
\* RuntimeError (dictionary changed size during iteration) when a key has
\* been stored since it was made, which ends stop_watching with the service
\* running as before; else it gives the timer stored under the next key,
\* which is cancelled, or ends the loop.
StopCancelNext ==
    /\ inst[ServicePid].pc = "cancel"
    /\ LET me == inst[ServicePid]
       IN  IF Len(timer_keys) # me.used
           THEN /\ inst' = [inst EXCEPT ![ServicePid] = [IdleInst EXCEPT !.pc = "running"]]
                /\ timers' = timers
           ELSE IF me.it < me.used
           THEN /\ inst' = [inst EXCEPT ![ServicePid].it = me.it + 1]
                /\ timers' = Cancel(timers, debounce_timers[timer_keys[me.it + 1]])
           ELSE /\ inst' = [inst EXCEPT ![ServicePid] = [IdleInst EXCEPT !.pc = "clear"]]
                /\ timers' = timers
    /\ UNCHANGED <<now, fs, service, obs, pending_changes, pending_event_types,
                   debounce_timers, timer_keys, recently_processed, nEvents, history,
                   lock_file, tasklist>>
    /\ UNCHANGED <<mailvars, sendvars>>

\* stop_watching, line 452: self.debounce_timers.clear()
StopClear ==
    /\ inst[ServicePid].pc = "clear"
    /\ debounce_timers' = [d \in DirPaths |-> NoTimer]
    /\ timer_keys' = <<>>
    /\ inst' = [inst EXCEPT ![ServicePid].pc = "join"]
    /\ UNCHANGED <<now, fs, service, obs, pending_changes, pending_event_types,
                   timers, recently_processed, nEvents, history, lock_file, tasklist>>
    /\ UNCHANGED <<mailvars, sendvars>>

\* The started observers that lines 456-457 have not stopped yet.
NotJoined == observers \ inst[ServicePid].joined

\* stop_watching, lines 455-457, one pass of the loop: observer.stop() and
\* observer.join() for the next observer of the list.  join() returns when
\* the thread has ended, after the callback it is in, if any, has returned.
StopObserver(o) ==
    /\ inst[ServicePid].pc = "join"
    /\ o \in NotJoined
    /\ \A j \in NotJoined : o <= j
    /\ obs[o].pc = "idle"
    /\ inst' = [inst EXCEPT ![ServicePid].joined = @ \cup {o}]
    /\ UNCHANGED <<watcher, lock_file, tasklist, mailvars, sendvars>>

\* stop_watching, line 459: self.observers.clear()
ClearObservers ==
    /\ inst[ServicePid].pc = "join"
    /\ NotJoined = {}
    /\ observers' = {}
    /\ inst' = [inst EXCEPT ![ServicePid] = [IdleInst EXCEPT !.pc = "not_running"]]
    /\ UNCHANGED <<watched_dirs, settings, is_running, events, lock_file, tasklist,
                   mailvars, sendvars>>

\* stop_watching, line 460: self.is_running = False
SetNotRunning ==
    /\ inst[ServicePid].pc = "not_running"
    /\ is_running' = FALSE
    /\ inst' = [inst EXCEPT ![ServicePid].pc = "release"]
    /\ UNCHANGED <<watched_dirs, settings, observers, events, lock_file, tasklist,
                   mailvars, sendvars>>

\* The processes that hold the lock file open between lines 378 and 379.
Writers == {q \in Procs : inst[q].pc = "write"}

\* stop_watching, lines 463-466: _release_lock unlinks the lock file if it
\* exists, whatever it holds, and stop_watching returns.  (exists() and
\* unlink() are two system calls; an unlink that finds the file gone is
\* caught at line 387, so the outcome is that of one step at the unlink.)
\* While another process holds the file open, the outcome depends on the
\* host: the unlink removes the name and the writer's PID goes to a file
\* without a name, or the unlink raises PermissionError, caught at line 387,
\* and the file stays.
ReleaseLock(p) ==
    /\ inst[p].pc = "release"
    /\ \E removed \in (IF Writers = {} THEN {TRUE} ELSE BOOLEAN) :
          /\ lock_file' = IF removed THEN NoFile ELSE lock_file
          /\ inst' = [q \in Procs |->
                        IF q = p THEN [inst[q] EXCEPT !.pc = "idle"]
                        ELSE IF removed /\ q \in Writers
                             THEN [inst[q] EXCEPT !.pc = "write_unlinked"]
                             ELSE inst[q]]
    /\ UNCHANGED <<watcher, tasklist, mailvars, sendvars>>

\* stop_watching looks at neither the kind of an event nor the size of its
\* file: every event is a modification of a file within the size limit, in
\* one of two unrelated directories.
InitStop == InitWith(ConfigPlain) /\ InitNoLock /\ InitNoMail /\ InitNoSend

NextStop ==
    \/ BeginStart(ServicePid)
    \/ LockExists(ServicePid)
    \/ LockOpen(ServicePid)
    \/ LockWritePid(ServicePid)
    \/ \E i \in ObsIds : StartObserver(i)
    \/ SetRunning(ServicePid)
    \/ \E f \in Files : FsDelete(f)
    \/ \E o \in ObsIds, f \in Files : Deliver(o, f, "modified", max_file_size_mb * BytesPerMB)
    \/ \E o \in ObsIds : Check(o)
    \/ \E o \in ObsIds : AddPending(o)
    \/ \E o \in ObsIds : SetEventType(o)
    \/ \E o \in ObsIds : TestTimer(o)
    \/ \E o \in ObsIds : CancelTimer(o)
    \/ \E o \in ObsIds : StartTimer(o)
    \/ \E o \in ObsIds : StoreTimer(o)
    \/ \E t \in TimerIds : TimerFire(t)
    \/ \E t \in TimerIds : Snapshot(t)
    \/ \E t \in TimerIds : ClearAndFilter(t)
    \/ \E t \in TimerIds : BuildAndCall(t)
    \/ \E t \in TimerIds, outcome \in Outcomes : SendReturns(t, outcome)
    \/ Tick
    \/ StopBegin
    \/ StopCancelNext
    \/ StopClear
    \/ \E o \in ObsIds : StopObserver(o)
    \/ ClearObservers
    \/ SetNotRunning
    \/ ReleaseLock(ServicePid)

SpecStop == InitStop /\ [][NextStop]_vars

(***************************************************************************)
(* Several processes on one host, each with a FileWatcherService, sharing  *)
(* the lock file: start_watching and stop_watching of each of them, and    *)
(* watch_forever of a process that was refused.  No file changes, so the   *)
(* observer threads deliver nothing.                                       *)
(***************************************************************************)
\* The lock file left behind by earlier runs: none, the PID of a process
\* that has exited, or text that is no PID.
InitLock ==
    /\ InitWith(ConfigPlain)
    /\ lock_file \in {NoFile, File(DeadPid), NotAPid}
    /\ tasklist \in BOOLEAN
    /\ inst = [p \in Procs |-> IdleInst]
    /\ InitNoMail /\ InitNoSend

\* stop_watching of a running process other than ServicePid, lines 444-460:
\* its timers and observers are its own, is_running = False.
StopOther(p) ==
    /\ p # ServicePid
    /\ inst[p].pc = "running"
    /\ inst' = [inst EXCEPT ![p].pc = "release"]
    /\ UNCHANGED <<watcher, lock_file, tasklist, mailvars, sendvars>>

NextLock ==
    \/ \E p \in Procs : BeginStart(p)
    \/ \E p \in Procs : LockExists(p)
    \/ \E p \in Procs : LockRead(p)
    \/ \E p \in Procs : LockTasklist(p)
    \/ \E p \in Procs : LockOpen(p)
    \/ \E p \in Procs : LockWritePid(p)
    \/ \E i \in ObsIds : StartObserver(i)
    \/ \E p \in Procs : SetRunning(p)
    \/ \E p \in Procs : RefusedReturns(p)
    \/ StopBegin
    \/ StopCancelNext
    \/ StopClear
    \/ \E o \in ObsIds : StopObserver(o)
    \/ ClearObservers
    \/ SetNotRunning
    \/ \E p \in Procs : StopOther(p)
    \/ \E p \in Procs : ReleaseLock(p)

SpecLock == InitLock /\ [][NextLock]_vars

(***************************************************************************)
(* EmailAutoReplyService (src/src/collection/email_auto_reply.py): one     *)
(* thread polls the INBOX over IMAP and replies to what it finds.          *)
(* mail.search(None, 'UNSEEN') returns message sequence numbers, the       *)
(* positions of the messages in the mailbox, which the service keeps under *)
(* the name uid.  Addresses are sequences of characters, so that lower()   *)
(* and the substring test of line 281 are what they are in the code.       *)
(***************************************************************************)
\* QQMAIL_USER, the account of the service.
username == <<"m", "e", "@", "q">>
\* The same account written in another case, another account, and another
\* account whose address contains the address of the service.
Senders == {username, <<"M", "e", "@", "q">>, <<"y", "o", "u", "@", "q">>,
            <<"h", "o", "m", "e", "@", "q">>}

\* str.lower() on the characters of the addresses.
Lower(str) == [i \in 1..Len(str) |-> IF str[i] = "M" THEN "m" ELSE str[i]]

\* sub in str
Contains(str, sub) ==
    \E i \in 1..(Len(str) - Len(sub) + 1) : SubSeq(str, i, i + Len(sub) - 1) = sub

\* A test for the own account that compares the addresses as they are written.
FromSelf_CaseSensitive(sender_email) == Contains(sender_email, username)

\* line 281: if self.username.lower() in sender_email.lower()
FromSelf(sender_email) == Contains(Lower(sender_email), Lower(username))

MessageIds == 1..MaxMessages

\* The mailbox when the service is constructed: up to MaxMessages - 1
\* messages, read or unread, from any of the senders.
InitMailbox ==
    /\ \E n \in 0..(MaxMessages - 1) :
          /\ arrived \in [1..n -> Senders]
          /\ \E seen \in [1..n -> BOOLEAN] :
                inbox = [i \in 1..n |-> [id |-> i, sender |-> arrived[i], seen |-> seen[i]]]
          /\ reply_calls = [i \in 1..n |-> 0]
    /\ monitoring = FALSE
    /\ initialized = FALSE
    /\ initial_uids = {}
    /\ processed_uids = {}
    /\ poll_pc = "idle"
    /\ email_ids = <<>>
    /\ msg_data = <<>>
    /\ new_emails = <<>>
    /\ unread_at_first_poll = {}

InitReply == InitWith(ConfigPlain) /\ InitNoLock /\ InitNoSend /\ InitMailbox

\* start_monitoring, lines 361-376: not running, the lock is taken and
\* connect() succeeds (when the lock is refused or connect() fails the call
\* returns with nothing changed); monitor_forever enters its loop.  What the
\* object has recorded in an earlier run (initialized, initial_uids,
\* processed_uids) is kept.
StartMonitoring ==
    /\ ~monitoring
    /\ monitoring' = TRUE
    /\ UNCHANGED <<inbox, initialized, initial_uids, processed_uids, poll_pc, email_ids,
                   msg_data, new_emails, arrived, reply_calls, unread_at_first_poll>>
    /\ UNCHANGED <<watcher, lockvars, sendvars>>

\* stop_monitoring, lines 395-400, called by the finally clause of
\* monitor_forever (lines 436-437) when Ctrl+C or an exception ends the loop,
\* wherever the thread is in it, between any two lines of _get_new_emails
\* included: disconnect, release the lock, is_running = False.  The locals
\* of the poll under way are dropped, what the poll has written to the
\* object stays.  A first poll that has not set initialized will be made
\* again.
StopMonitoring ==
    /\ monitoring
    /\ monitoring' = FALSE
    /\ poll_pc' = "idle"
    /\ email_ids' = <<>>
    /\ msg_data' = <<>>
    /\ new_emails' = <<>>
    /\ unread_at_first_poll' = IF initialized THEN unread_at_first_poll ELSE {}
    /\ UNCHANGED <<inbox, initialized, initial_uids, processed_uids, arrived, reply_calls>>
    /\ UNCHANGED <<watcher, lockvars, sendvars>>

\* A message from sender is delivered to the mailbox: it gets the next
\* sequence number and is unread.
Arrive(sender) ==
    /\ Len(arrived) < MaxMessages
    /\ arrived' = Append(arrived, sender)
    /\ reply_calls' = Append(reply_calls, 0)
    /\ inbox' = Append(inbox, [id |-> Len(arrived) + 1, sender |-> sender, seen |-> FALSE])
    /\ UNCHANGED <<monitoring, initialized, initial_uids, processed_uids, poll_pc,
                   email_ids, msg_data, new_emails, unread_at_first_poll>>
    /\ UNCHANGED <<watcher, lockvars, sendvars>>

\* The owner of the mailbox deletes the message with sequence number i in
\* another client: the messages after it move down by one.
Expunge(i) ==
    /\ i \in 1..Len(inbox)
    /\ inbox' = [j \in 1..(Len(inbox) - 1) |-> IF j < i THEN inbox[j] ELSE inbox[j + 1]]
    /\ UNCHANGED <<monitoring, initialized, initial_uids, processed_uids, poll_pc,
                   email_ids, msg_data, new_emails, arrived, reply_calls,
                   unread_at_first_poll>>
    /\ UNCHANGED <<watcher, lockvars, sendvars>>

\* The owner of the mailbox marks the message with sequence number i unread.
MarkUnread(i) ==
    /\ i \in 1..Len(inbox)
    /\ inbox[i].seen
    /\ inbox' = [inbox EXCEPT ![i].seen = FALSE]
    /\ UNCHANGED <<monitoring, initialized, initial_uids, processed_uids, poll_pc,
                   email_ids, msg_data, new_emails, arrived, reply_calls,
                   unread_at_first_poll>>
    /\ UNCHANGED <<watcher, lockvars, sendvars>>

\* line 235: mail.search(None, 'UNSEEN'): the sequence numbers of the unread
\* messages, in rising order.
Unseen == {i \in 1..Len(inbox) : ~inbox[i].seen}

\* messages[0].split(): the numbers of set S as a list in rising order.
RECURSIVE Ascending(_)
Ascending(S) ==
    IF S = {} THEN <<>>
    ELSE LET least == CHOOSE i \in S : \A j \in S : i <= j
         IN  <<least>> \o Ascending(S \ {least})

\* What the server answers to a command: status OK, status NO, or the
\* command raises (the connection is lost, the server answers BAD).
Replies == {"OK", "NO", "raise"}

\* _get_new_emails, lines 231-243, called by monitor_forever when the replies
\* of the poll before are done: the search.  A search that fails or raises
\* returns no message.  The first poll goes on to the loop of line 244, a
\* later poll to the loop of line 253, with the numbers found.
PollSearch(reply) ==
    /\ monitoring
    /\ poll_pc = "idle"
    /\ new_emails = <<>>
    /\ IF reply # "OK"
       THEN UNCHANGED <<poll_pc, email_ids, unread_at_first_poll>>
       ELSE /\ email_ids' = Ascending(Unseen)
            /\ poll_pc' = IF initialized THEN "loop" ELSE "first"
            /\ unread_at_first_poll' = IF initialized THEN unread_at_first_poll
                                       ELSE {inbox[i].id : i \in Unseen}
    /\ UNCHANGED <<inbox, monitoring, initialized, initial_uids, processed_uids, msg_data,
                   new_emails, arrived, reply_calls>>
    /\ UNCHANGED <<watcher, lockvars, sendvars>>

\* _get_new_emails, lines 244-246, the first poll:
\* self.initial_uids.add(uid) for the next number
AddInitial ==
    /\ poll_pc = "first"
    /\ email_ids # <<>>
    /\ initial_uids' = initial_uids \cup {Head(email_ids)}
    /\ poll_pc' = "first_processed"
    /\ UNCHANGED <<inbox, monitoring, initialized, processed_uids, email_ids, msg_data,
                   new_emails, arrived, reply_calls, unread_at_first_poll>>
    /\ UNCHANGED <<watcher, lockvars, sendvars>>

\* _get_new_emails, line 247, the first poll: self.processed_uids.add(uid)
AddProcessedInitial ==
    /\ poll_pc = "first_processed"
    /\ processed_uids' = processed_uids \cup {Head(email_ids)}
    /\ email_ids' = Tail(email_ids)
    /\ poll_pc' = "first"
    /\ UNCHANGED <<inbox, monitoring, initialized, initial_uids, msg_data, new_emails,
                   arrived, reply_calls, unread_at_first_poll>>
    /\ UNCHANGED <<watcher, lockvars, sendvars>>

\* _get_new_emails, lines 248-251, the first poll: the loop is over,
\* self.initialized = True, return []
SetInitialized ==
    /\ poll_pc = "first"
    /\ email_ids = <<>>
    /\ initialized' = TRUE
    /\ poll_pc' = "idle"
    /\ UNCHANGED <<inbox, monitoring, initial_uids, processed_uids, email_ids, msg_data,
                   new_emails, arrived, reply_calls, unread_at_first_poll>>
    /\ UNCHANGED <<watcher, lockvars, sendvars>>

\* _get_new_emails, lines 253-267 and 297, a later poll: the next number.
\* A number that is processed or initial is skipped.  Otherwise
\* mail.fetch(email_id, '(RFC822)') is sent, and the server marks the
\* message that has this sequence number now as read and returns it.  With
\* status NO the loop goes on.  When the command raises (the connection is
\* lost before or after the server has run the command), or the mailbox has
\* no message of this number (the server returns no data and line 267 raises
\* TypeError), line 297 catches the exception and the loop is left with the
\* messages appended so far.
Fetch(reply) ==
    /\ poll_pc = "loop"
    /\ email_ids # <<>>
    /\ LET uid == Head(email_ids)
           known == uid \in processed_uids \/ uid \in initial_uids
           there == uid <= Len(inbox)
           read == [inbox EXCEPT ![uid].seen = TRUE]
       IN  /\ known => reply = "OK"
           /\ IF known \/ reply = "NO"
              THEN /\ email_ids' = Tail(email_ids)
                   /\ UNCHANGED <<inbox, msg_data, poll_pc>>
              ELSE IF reply = "raise"
              THEN /\ email_ids' = <<>>
                   /\ \E ran \in BOOLEAN : inbox' = IF ran /\ there THEN read ELSE inbox
                   /\ UNCHANGED <<msg_data, poll_pc>>
              ELSE IF ~there
              THEN /\ email_ids' = <<>>
                   /\ UNCHANGED <<inbox, msg_data, poll_pc>>
              ELSE /\ inbox' = read
                   /\ msg_data' = <<[id |-> inbox[uid].id, sender |-> inbox[uid].sender]>>
                   /\ poll_pc' = "parse"
                   /\ UNCHANGED email_ids
    /\ UNCHANGED <<monitoring, initialized, initial_uids, processed_uids, new_emails,
                   arrived, reply_calls, unread_at_first_poll>>
    /\ UNCHANGED <<watcher, lockvars, sendvars>>

\* _get_new_emails, lines 267-293: the message fetched is parsed; when the
\* own account sent it, its number is added to processed_uids (line 282) and
\* the loop goes on, otherwise the message is appended to new_emails.
ParseEmail ==
    /\ poll_pc = "parse"
    /\ LET uid == Head(email_ids)
           msg == msg_data[1]
       IN  IF FromSelf(msg.sender)
           THEN /\ processed_uids' = processed_uids \cup {uid}
                /\ email_ids' = Tail(email_ids)
                /\ poll_pc' = "loop"
                /\ UNCHANGED new_emails
           ELSE /\ new_emails' = Append(new_emails,
                                        [uid |-> uid, id |-> msg.id,
                                         from_email |-> msg.sender])
                /\ poll_pc' = "processed"
                /\ UNCHANGED <<processed_uids, email_ids>>
    /\ msg_data' = <<>>
    /\ UNCHANGED <<inbox, monitoring, initialized, initial_uids, arrived, reply_calls,
                   unread_at_first_poll>>
    /\ UNCHANGED <<watcher, lockvars, sendvars>>

\* _get_new_emails, line 295: self.processed_uids.add(uid)
AddProcessed ==
    /\ poll_pc = "processed"
    /\ processed_uids' = processed_uids \cup {Head(email_ids)}
    /\ email_ids' = Tail(email_ids)
    /\ poll_pc' = "loop"
    /\ UNCHANGED <<inbox, monitoring, initialized, initial_uids, msg_data, new_emails,
                   arrived, reply_calls, unread_at_first_poll>>
    /\ UNCHANGED <<watcher, lockvars, sendvars>>

\* _get_new_emails, line 300: the loop is over, return new_emails
PollReturns ==
    /\ poll_pc = "loop"
    /\ email_ids = <<>>
    /\ poll_pc' = "idle"
    /\ UNCHANGED <<inbox, monitoring, initialized, initial_uids, processed_uids, email_ids,
                   msg_data, new_emails, arrived, reply_calls, unread_at_first_poll>>
    /\ UNCHANGED <<watcher, lockvars, sendvars>>

\* monitor_forever, lines 423-429: _send_reply for the next message of the
\* poll; send_email returns success or error, or raises.
SendReply(outcome) ==
    /\ monitoring
    /\ poll_pc = "idle"
    /\ new_emails # <<>>
    /\ reply_calls' = [reply_calls EXCEPT ![Head(new_emails).id] =
                          IF @ < 2 THEN @ + 1 ELSE @]
    /\ new_emails' = Tail(new_emails)
    /\ UNCHANGED <<inbox, monitoring, initialized, initial_uids, processed_uids, poll_pc,
                   email_ids, msg_data, arrived, unread_at_first_poll>>
    /\ UNCHANGED <<watcher, lockvars, sendvars>>

NextReply ==
    \/ StartMonitoring
    \/ StopMonitoring
    \/ \E sender \in Senders : Arrive(sender)
    \/ \E i \in MessageIds : Expunge(i)
    \/ \E i \in MessageIds : MarkUnread(i)
    \/ \E reply \in Replies : PollSearch(reply)
    \/ AddInitial
    \/ AddProcessedInitial
    \/ SetInitialized
    \/ \E reply \in Replies : Fetch(reply)
    \/ ParseEmail
    \/ AddProcessed
    \/ PollReturns
    \/ \E outcome \in Outcomes : SendReply(outcome)

SpecReply == InitReply /\ [][NextReply]_vars

(***************************************************************************)
(* GmailSMTPService.send_email (src/src/api_integration/email_service.py): *)
(* the recipient check and the retry loop, one step per attempt.           *)
(***************************************************************************)
LocalChars == {"a", "b", "c", "1", ".", "_", "%", "+", "-"}
DomainChars == {"a", "b", "c", "1", ".", "-"}
LetterChars == {"a", "b", "c"}

\* validate_email: re.match(r'^[a-zA-Z0-9._%+-]+@[a-zA-Z0-9.-]+\.[a-zA-Z]{2,}$')
\* over the characters above; $ also matches before a newline that ends the
\* string.
ValidateEmail(email) ==
    \E n \in {Len(email), Len(email) - 1} :
        /\ n >= 0
        /\ n = Len(email) \/ email[Len(email)] = "\n"
        /\ \E i \in 2..n, j \in 4..n :
              /\ \A k \in 1..(i - 1) : email[k] \in LocalChars
              /\ email[i] = "@"
              /\ i + 1 < j
              /\ \A k \in (i + 1)..(j - 1) : email[k] \in DomainChars
              /\ email[j] = "."
              /\ j + 2 <= n
              /\ \A k \in (j + 1)..n : email[k] \in LetterChars

\* Recipients: a well-formed address, the same followed by a newline, one
\* with a top-level domain of one letter, one without @, and the empty string.
Recipients == {<<"a", "@", "b", ".", "c", "c">>,
               <<"a", "@", "b", ".", "c", "c", "\n">>,
               <<"a", "@", "b", ".", "c">>,
               <<"a", "b", ".", "c", "c">>,
               <<>>}

\* The attachments argument: none, files that exist, or a file that is missing
\* (then _attach_file raises FileNotFoundError inside the try block).
Attachments == {"none", "present", "missing"}

InitSend ==
    /\ InitWith(ConfigPlain) /\ InitNoLock /\ InitNoMail
    /\ retry_attempts \in 0..MaxRetries
    /\ send_call = IdleCall

\* send_email, lines 116-131: an invalid recipient returns an error result
\* at once; otherwise the loop of line 132 is entered.
CallSendEmail(to, att) ==
    /\ send_call.pc = "idle"
    /\ send_call' = IF ~ValidateEmail(to)
                    THEN [IdleCall EXCEPT !.pc = "returned", !.to = to,
                                          !.attachments = att, !.status = "error"]
                    ELSE [IdleCall EXCEPT !.pc = "loop", !.to = to, !.attachments = att]
    /\ UNCHANGED <<watcher, lockvars, mailvars, retry_attempts>>

\* One pass of the loop body, lines 133-217: the message is built, the SMTP
\* session either sends it (line 201 returns the success result) or raises;
\* an exception is retried unless this was the last attempt (line 204).
Attempt(outcome) ==
    /\ send_call.pc = "loop"
    /\ send_call.attempt < retry_attempts
    /\ LET smtp == send_call.attachments # "missing"
           n == IF smtp /\ send_call.smtp_attempts < MaxRetries
                THEN send_call.smtp_attempts + 1 ELSE send_call.smtp_attempts
       IN  send_call' =
              IF smtp /\ outcome = "success"
              THEN [send_call EXCEPT !.pc = "returned", !.smtp_attempts = n,
                                     !.status = "success"]
              ELSE IF send_call.attempt < retry_attempts - 1
              THEN [send_call EXCEPT !.attempt = @ + 1, !.smtp_attempts = n]
              ELSE [send_call EXCEPT !.pc = "returned", !.smtp_attempts = n,
                                     !.status = "error", !.attempts = send_call.attempt + 1]
    /\ UNCHANGED <<watcher, lockvars, mailvars, retry_attempts>>

\* line 132 with nothing left in range(self.retry_attempts): the for loop
\* ends and the function ends without a return statement (None).
LoopEnds ==
    /\ send_call.pc = "loop"
    /\ send_call.attempt >= retry_attempts
    /\ send_call' = [send_call EXCEPT !.pc = "returned", !.status = "None"]
    /\ UNCHANGED <<watcher, lockvars, mailvars, retry_attempts>>

\* The caller makes its next call.
NextCall ==
    /\ send_call.pc = "returned"
    /\ send_call' = IdleCall
    /\ UNCHANGED <<watcher, lockvars, mailvars, retry_attempts>>

NextSend ==
    \/ \E to \in Recipients, att \in Attachments : CallSendEmail(to, att)
    \/ \E outcome \in {"success", "raise"} : Attempt(outcome)
    \/ LoopEnds
    \/ NextCall

SpecSend == InitSend /\ [][NextSend]_vars

(***************************************************************************)
(* Vocabulary of the properties.                                           *)
(***************************************************************************)
\* The directory under which _on_file_change records the file.
Key(f) ==
    LET d == FindWatchedDir(f)
    IN  IF d = 0 THEN <<>> ELSE AbsPath(watched_dirs[d].path)

\* Nothing is under way for directory d: no handler is recording an event
\* for it, no timer of it is scheduled and no flush of it is before its call.
Quiet(d) ==
    /\ \A o \in ObsIds :
          \/ obs[o].pc = "idle"
          \/ obs[o].pc = "check" /\ Key(AbsPath(obs[o].path)) # d
          \/ obs[o].pc \notin {"idle", "check"} /\ obs[o].wdir # d
    /\ \A t \in TimerIds :
          timers[t].dir = d => timers[t].st \in {"sending", "dead"}

Fires(t) == timers[t].st = "scheduled" /\ timers'[t].st = "snap"
Drains(t) == timers[t].st = "snap" /\ timers'[t].st = "clear"
Clears(t) == timers[t].st = "clear" /\ timers'[t].st # "clear"
Calls(t) == timers[t].st = "build" /\ timers'[t].st = "sending"
Returns(t) == timers[t].st = "sending" /\ timers'[t].st = "dead"

\* The size limit in bytes.
Limit == max_file_size_mb * BytesPerMB

\* The observer thread o takes a step of its _on_file_change call.
Handles(o) == obs'[o] # obs[o] /\ obs[o].pc # "idle"

\* C1: a burst of accepted events on one path, each less than
\* debounce_delay after the previous one, the file existing throughout, gets
\* exactly one flush with one send_email call (never two, and one once the
\* directory is quiet again), and the call reports the kind of the last
\* event accepted for the path.
C1_BurstFlushedOnce ==
    [][/\ \A f \in Files :
             accepted_at'[f] # NoTime /\ f \notin gone'
             => /\ burst_calls'[f] <= 1
                /\ Quiet(Key(f))' => burst_calls'[f] = 1
       /\ \A t \in TimerIds :
             Calls(t) => \A f \in timers'[t].files :
                            timers'[t].kinds[f] = accepted_kind[f]]_vars

\* C2: a flush starts only when debounce_delay has elapsed since the most
\* recent event accepted for its directory, and it drains no path that was
\* recorded less than debounce_delay earlier.
C2_FlushAfterQuietDelay ==
    [][\A t \in TimerIds :
          /\ Fires(t) => \A f \in Files :
                Key(f) = timers[t].dir /\ accepted_at[f] # NoTime
                => now >= accepted_at[f] + debounce_delay
          /\ Drains(t) => \A f \in timers'[t].changed :
                now >= accepted_at[f] + debounce_delay]_vars

\* C3: an event for a path whose registry entry is less than
\* cooldown_seconds old when _on_file_change checks it ends the call there:
\* the path is not added to a pending set by that event and the call goes on
\* to none of the recording steps.
C3_CooldownEventNotRecorded ==
    [][\A o \in ObsIds :
          LET f == AbsPath(obs[o].path)
          IN  /\ (/\ obs[o].pc = "check" /\ Handles(o)
                  /\ recently_processed[f] # NoTime
                  /\ now - recently_processed[f] < cooldown_seconds)
                 => /\ obs'[o].pc = "idle"
                    /\ pending_changes' = pending_changes
              /\ obs'[o].pc = "add" /\ Handles(o)
                 => \/ recently_processed[f] = NoTime
                    \/ now - recently_processed[f] >= cooldown_seconds]_vars

\* C3 happens: a call has been ended by the cooldown check.
C3_Witness ==
    \E o \in ObsIds : obs[o].outcome = "cooldown"

\* The flush of timer t filters its batch at line 232 and finds that no file
\* of it exists.
AllVanished(t) ==
    /\ timers[t].st = "clear" /\ timers'[t].st # "clear"
    /\ \A f \in timers[t].changed : fs[f] = Absent

\* No event of the directory of timer t has been accepted since t became
\* due, and no _on_file_change call for that directory is under way.
NoEventSince(t) ==
    /\ \A f \in Files :
          Key(f) = timers[t].dir => accepted_at[f] < timers[t].deadline
    /\ \A o \in ObsIds :
          \/ obs[o].pc = "idle"
          \/ obs[o].pc = "check" /\ Key(AbsPath(obs[o].path)) # timers[t].dir
          \/ obs[o].pc \notin {"idle", "check"} /\ obs[o].wdir # timers[t].dir

\* C4: a path whose file does not exist when the flush filters its batch is
\* in no attachment list (the files of a call exist when the call is made),
\* and when no file of the batch exists the flush ends there without a call
\* and its directory is Idle: unless an event of the directory has arrived
\* since the timer became due, the pending set of the directory is empty and
\* no timer is scheduled for it.
C4_VanishedNotAttached ==
    [][\A t \in TimerIds :
          /\ Clears(t) => \A f \in timers[t].changed :
                              fs[f] = Absent => f \notin timers'[t].files
          /\ Calls(t) => /\ timers'[t].files \subseteq timers[t].changed
                         /\ \A f \in timers'[t].files : fs[f] # Absent
          /\ AllVanished(t)
             => /\ timers'[t] = Dead(timers[t].dir, "vanished")
                /\ NoEventSince(t)
                   => /\ pending_changes'[timers[t].dir] = {}
                      /\ \A u \in TimerIds :
                            timers'[u].dir = timers[t].dir
                            => timers'[u].st # "scheduled"]_vars

\* C5: when send_email returns an error or raises, the registry entry of
\* every path of the batch stays as it was; an event handled afterwards for
\* such a path (the file existing, within the size limit, and no successful
\* send holding it in cooldown) is accepted, recorded in the pending set of
\* its directory and given a timer of a full debounce_delay; and the path is
\* in a new flush attempt: from its recording on it is in the pending set of
\* its directory or in the batch that a running flush has read from it, a
\* flush that reads the pending set takes it, and no flush empties the
\* pending set of it without having read it.
C5_FailureLeavesNoCooldown ==
    [][/\ \A t \in TimerIds :
             Returns(t) /\ timers'[t].end # "success"
             => /\ recently_processed' = recently_processed
                /\ timers[t].files \subseteq failed'
       /\ \A o \in ObsIds :
             LET f == AbsPath(obs[o].path)
             IN  Handles(o) /\ f \in failed =>
                    /\ (/\ obs[o].pc = "check"
                        /\ fs[f] # Absent /\ fs[f] <= Limit
                        /\ ~InCooldown(f))
                       => obs'[o].pc = "add"
                    /\ obs[o].pc = "add" => f \in pending_changes'[Key(f)]
                    /\ obs[o].pc = "start"
                       => /\ timers'[obs'[o].timer].st = "scheduled"
                          /\ timers'[obs'[o].timer].dir = Key(f)
                          /\ timers'[obs'[o].timer].deadline = now + debounce_delay
       /\ \A t \in TimerIds :
             Drains(t) => \A f \in failed \cap pending_changes[timers[t].dir] :
                             f \in timers'[t].changed
       /\ \A f \in failed' \cap owed' :
             \/ f \in pending_changes'[Key(f)]
             \/ \E t \in TimerIds :
                   \/ timers'[t].st = "clear" /\ f \in timers'[t].changed
                   \/ timers'[t].st = "build" /\ f \in timers'[t].files]_vars

\* C6: an event for a file larger than max_file_size_mb ends the call at
\* the size check and changes neither the pending sets, the event kinds nor
\* any timer; an event for a file exactly at the limit, under a watched
\* directory and not in cooldown, is accepted.
C6_OversizeDropped ==
    [][\A o \in ObsIds :
          LET f == AbsPath(obs[o].path)
          IN  obs[o].pc = "check" /\ Handles(o) /\ fs[f] # Absent =>
                 /\ fs[f] > Limit
                    => /\ obs'[o].pc = "idle"
                       /\ pending_changes' = pending_changes
                       /\ pending_event_types' = pending_event_types
                       /\ debounce_timers' = debounce_timers
                       /\ timers' = timers
                 /\ (fs[f] = Limit /\ Key(f) # <<>> /\ ~InCooldown(f))
                    => obs'[o].pc = "add"]_vars

\* C6 happens: an oversize event has been dropped while a file exactly at
\* the limit is pending.
C6_Witness ==
    /\ \E o \in ObsIds : obs[o].outcome = "too_large"
    /\ \E f \in Files : fs[f] = Limit /\ f \in pending_changes[Key(f)]

\* The directory that observer o watches.
Watched(o) == AbsPath(watched_dirs[o].path)

\* C7: the call that handles an event of one watched directory changes the
\* pending set and the timers of that directory only, and a flush drains
\* only paths that lie in its own directory.
C7_DirectoriesIndependent ==
    [][/\ \A o \in ObsIds :
             Handles(o) /\ obs[o].pc # "check" =>
                /\ \A d \in DirPaths \ {Watched(o)} :
                      /\ pending_changes'[d] = pending_changes[d]
                      /\ debounce_timers'[d] = debounce_timers[d]
                /\ \A t \in TimerIds :
                      timers'[t] # timers[t]
                      => Watched(o) \in {timers[t].dir, timers'[t].dir}
       /\ \A t \in TimerIds :
             Drains(t) => \A f \in timers'[t].changed :
                             StartsWith(f, timers[t].dir \o <<"/">>)]_vars

\* C8: no send_email call contains a path whose last successful
\* notification is less than cooldown_seconds old.
C8_NoCallInCooldown ==
    [][\A t \in TimerIds :
          Calls(t) => \A f \in timers'[t].files : ~InCooldown(f)]_vars

\* C9: an accepted change is never lost: until a flush takes it up, its path
\* is in the pending set of its directory or in the batch a running flush
\* has captured.
C9_NoLostChange ==
    \A f \in owed :
        \/ f \in pending_changes[Key(f)]
        \/ \E t \in TimerIds :
              \/ timers[t].st = "clear" /\ f \in timers[t].changed
              \/ timers[t].st = "build" /\ f \in timers[t].files

\* C10: every directory has at most one timer that is scheduled and has
\* neither fired nor been cancelled.
C10_OneLiveTimer ==
    \A d \in DirPaths :
        Cardinality({t \in TimerIds : timers[t].st = "scheduled" /\ timers[t].dir = d}) <= 1

\* C11: two processes are never both running (lock written, observers
\* started) at the same time.
C11_OneRunningInstance ==
    \A p, q \in Procs :
        inst[p].pc = "running" /\ inst[q].pc = "running" => p = q

\* C12: once stop_watching has returned, no timer is scheduled, no timer
\* fires and no send_email call is made (a send already in progress may end).
C12_NothingAfterStop ==
    [][(~is_running /\ inst[ServicePid].pc = "idle")
       => \A t \in TimerIds : /\ timers[t].st # "scheduled"
                              /\ ~Fires(t)
                              /\ ~Calls(t)]_vars

\* C13: a send that returns success sets the registry entry of every path
\* of its attachment list to the time of the return and changes the entry of
\* no other path; no other step of the program changes the registry.
C13_RegistryWrittenOnSuccess ==
    [][/\ \A t \in TimerIds :
             Returns(t) /\ timers'[t].end = "success"
             => \A f \in Files :
                   recently_processed'[f] =
                       IF f \in timers[t].files THEN now ELSE recently_processed[f]
       /\ recently_processed' # recently_processed
          => \E t \in TimerIds : Returns(t) /\ timers'[t].end = "success"]_vars

\* C13 happens: a send has returned success, its path is in the registry
\* and another accepted path is not.
C13_Witness ==
    /\ \E t \in TimerIds : timers[t].end = "success"
    /\ \E f, g \in Files :
          /\ recently_processed[f] # NoTime
          /\ recently_processed[g] = NoTime /\ accepted_at[g] # NoTime

\* The flush of timer t ends: its thread returns (or dies).
Ends(t) ==
    /\ timers[t].st \in {"snap", "clear", "build", "sending"}
    /\ timers'[t].st = "dead"

\* C14: a flush during which no event of its directory arrived leaves the
\* directory Idle when it ends, whatever its outcome: the pending set is
\* empty and no timer of the directory is scheduled.
C14_FlushEndsIdle ==
    [][\A t \in TimerIds :
          Ends(t) /\ NoEventSince(t)
          => /\ pending_changes'[timers[t].dir] = {}
             /\ \A u \in TimerIds :
                   ~(timers'[u].st = "scheduled" /\ timers'[u].dir = timers[t].dir)]_vars

\* A flush of directory d is running: a timer of d has fired and not ended.
Flushing(d) ==
    \E t \in TimerIds :
        timers[t].dir = d /\ timers[t].st \in {"snap", "clear", "build", "sending"}

\* A timer is scheduled for directory d.
Scheduled(d) ==
    \E t \in TimerIds : timers[t].dir = d /\ timers[t].st = "scheduled"

\* No _on_file_change call is between its checks and its return for d.
NoCallUnderWay(d) ==
    \A o \in ObsIds : obs[o].pc \in {"add", "kind", "timer", "cancel", "start", "store"} => obs[o].wdir # d

\* C15: between the calls of _on_file_change, every directory is Idle,
\* Accumulating or Flushing and in one of them only: while no flush of it
\* runs, its pending set is non-empty exactly when a timer is scheduled for
\* it, and no timer is scheduled for it while a flush of it runs.
C15_OneStatePerDirectory ==
    \A d \in DirPaths :
        NoCallUnderWay(d) =>
            /\ ~Flushing(d) => (pending_changes[d] # {} <=> Scheduled(d))
            /\ Flushing(d) => ~Scheduled(d)

\* C16: a send that fails puts no path back into a pending set and arms,
\* cancels or starts no timer, and a later send_email call contains a path
\* of a failed batch only when an event accepted for the path is still
\* waiting to be flushed.
C16_NoRetry ==
    [][/\ \A t \in TimerIds :
             Returns(t) /\ timers'[t].end # "success"
             => /\ pending_changes' = pending_changes
                /\ debounce_timers' = debounce_timers
                /\ \A u \in TimerIds \ {t} : timers'[u] = timers[u]
       /\ \A t \in TimerIds :
             Calls(t) => \A f \in timers'[t].files \cap failed : f \in owed]_vars

\* C17: when a flush has passed the existence filter and a file of its
\* batch has vanished since while another still exists, the flush drops the
\* vanished paths only and calls send_email with the remaining files.
C17_VanishedFileDroppedAlone ==
    [][\A t \in TimerIds :
          LET remaining == {f \in timers[t].files : fs[f] # Absent}
          IN  (/\ timers[t].st = "build"
               /\ timers'[t] # timers[t]
               /\ remaining # {})
              => /\ timers'[t].st = "sending"
                 /\ timers'[t].files = remaining]_vars

\* The watched directory whose tree holds file f (<<>> when there is none).
Home(f) ==
    LET hits == {i \in 1..Len(watched_dirs) :
                    Inside(f, AbsPath(watched_dirs[i].path), watched_dirs[i].recursive)}
    IN  IF hits = {} THEN <<>>
        ELSE AbsPath(watched_dirs[CHOOSE i \in hits : \A j \in hits : i <= j].path)

\* The timer thread t reads the pending set of its directory (line 224).
Snaps(t) == timers[t].st = "snap" /\ timers'[t].st # "snap"

\* C18: the batch a flush of directory D takes is the set of the paths of D
\* accepted and not yet taken by a flush, and the attachment list of its
\* call is the set of the paths of that batch whose files exist.
C18_BatchIsWhatWasAccepted ==
    [][\A t \in TimerIds :
          /\ Snaps(t)
             => pending_changes[timers[t].dir] =
                    {f \in owed : Home(f) = timers[t].dir}
          /\ Calls(t)
             => timers'[t].files = {f \in timers[t].changed : fs[f] # Absent}]_vars

\* C19: the kind a notification reports for a path is the kind that was
\* recorded for it when the flush drained the pending set: an event handled
\* after the drain does not alter it.
C19_KindAsOfDrain ==
    [][\A t \in TimerIds :
          Calls(t) => \A f \in timers'[t].files :
                         timers[t].drained[f] # NoKind
                         => timers'[t].kinds[f] = timers[t].drained[f]]_vars

\* C20: an event that the cooldown check rejects ends its call there and
\* changes nothing of the batching state: the pending sets, the event-kind
\* map, the timers stored for the directories and every timer (none started,
\* none cancelled, no deadline moved) are as they were.
C20_CooldownRejectLeavesBatch ==
    [][\A o \in ObsIds :
          LET f == AbsPath(obs[o].path)
          IN  (/\ obs[o].pc = "check" /\ Handles(o)
               /\ fs[f] # Absent
               /\ recently_processed[f] # NoTime
               /\ now - recently_processed[f] < cooldown_seconds)
              => /\ obs'[o].pc = "idle"
                 /\ pending_changes' = pending_changes
                 /\ pending_event_types' = pending_event_types
                 /\ debounce_timers' = debounce_timers
                 /\ timers' = timers]_vars

\* C20 happens: a call has been ended by the cooldown check while the timer
\* stored for the directory of its path was running for a batch in progress.
C20_Witness ==
    \E o \in ObsIds, d \in DirPaths :
        /\ obs[o].outcome = "cooldown"
        /\ pending_changes[d] # {}
        /\ debounce_timers[d] # NoTimer
        /\ timers[debounce_timers[d]].st = "scheduled"
        /\ \E f \in Files : /\ Inside(f, d, TRUE)
                            /\ recently_processed[f] # NoTime
                            /\ now - recently_processed[f] < cooldown_seconds

\* C24: an accepted path is recorded under a watched directory that contains
\* the file (the directory is an ancestor of the path), and it is in the
\* pending set of no other directory.
C24_RecordedUnderOwnDirectory ==
    [][\A o \in ObsIds :
          obs[o].pc = "add" /\ Handles(o)
          => /\ Inside(obs[o].path, obs[o].wdir, TRUE)
             /\ \A d \in DirPaths :
                   obs[o].path \in pending_changes'[d] => d = obs[o].wdir]_vars

\* C30: the event-kind mapping holds an entry only for a path that is in the
\* pending set of some directory: a flush that drains a path removes its
\* entry of the mapping as well.
C30_KindsOnlyOfPendingPaths ==
    \A f \in Files :
        pending_event_types[f] # NoKind
        => \E d \in DirPaths : f \in pending_changes[d]

\* The batching state: pending sets, event kinds, stored timers, timers.
aggregator == <<pending_changes, pending_event_types, debounce_timers, timer_keys, timers>>

C25_DisabledDirectoryIdle ==
    \A i \in 1..Len(watched_dirs) :
        ~watched_dirs[i].enabled
        => LET d == AbsPath(watched_dirs[i].path)
           IN  /\ pending_changes[d] = {}
               /\ debounce_timers[d] = NoTimer
               /\ \A t \in TimerIds : timers[t].dir # d

\* C26: a flush that finds notification switched off for its directory
\* (notify_on_change or send_email_on_change false), no email service, or no
\* notify_email ends without a send_email call; the registry is unchanged by
\* it and the paths it drained are not put back into the pending set.
C26_SilentFlushDropsBatch ==
    [][\A t \in TimerIds :
          LET c == FindDirConfig(timers[t].dir)
          IN  /\ (/\ Clears(t) /\ c # 0
                  /\ \E f \in timers[t].changed : fs[f] # Absent
                  /\ \/ ~watched_dirs[c].notify_on_change
                     \/ ~settings.send_email_on_change)
                 => /\ timers'[t].st = "dead"
                    /\ pending_changes'[timers[t].dir] = {}
                    /\ recently_processed' = recently_processed
                    /\ burst_calls' = burst_calls
              /\ (/\ timers[t].st = "build" /\ timers'[t] # timers[t]
                  /\ \/ ~settings.email_service
                     \/ ~watched_dirs[c].notify_email)
                 => /\ timers'[t].st = "dead"
                    /\ pending_changes' = pending_changes
                    /\ recently_processed' = recently_processed
                    /\ burst_calls' = burst_calls]_vars

\* C26 happens: a flush has ended on one of the four conditions, nothing is
\* pending for its directory and the registry holds none of its paths.
C26_Witness ==
    \E t \in TimerIds :
        /\ timers[t].st = "dead"
        /\ timers[t].end \in {"disabled", "no_service", "no_recipient"}
        /\ pending_changes[timers[t].dir] = {}
        /\ \A f \in Files : Inside(f, timers[t].dir, TRUE) => recently_processed[f] = NoTime

\* C22: _acquire_lock on an existing lock file whose recorded PID names a
\* running process fails and leaves the file as it is; when the file holds
\* text that is no PID or the PID of no running process, or when there is no
\* file, it writes the caller's PID and succeeds.
C22_AcquireLock ==
    [][\A p \in Procs :
          /\ (inst[p].pc = "exists" /\ inst'[p] # inst[p] /\ lock_file = NoFile)
             => inst'[p].pc = "open"
          /\ (inst[p].pc = "read" /\ inst'[p] # inst[p]
                /\ lock_file.exists /\ ~IsInt(lock_file.text))
             => inst'[p].pc = "open"
          /\ (inst[p].pc = "tasklist" /\ inst'[p] # inst[p])
             => /\ lock_file' = lock_file
                /\ inst'[p].pc = IF \E q \in Procs : ParseInt(getpid(q)) = inst[p].pid
                                 THEN "refused" ELSE "open"
          /\ (inst[p].pc = "open" /\ inst'[p] # inst[p])
             => inst'[p].pc = "write"
          /\ (inst[p].pc \in {"write", "write_unlinked"} /\ inst'[p].pc = "observers")
             => lock_file' = File(getpid(p))]_vars

\* C23: the lock file is deleted only by the instance whose PID it holds
\* (stop_watching of the running owner), and an instance that was refused
\* the lock returns without deleting or overwriting the file.
C23_LockRemovedByHolderOnly ==
    [][\A p \in Procs :
          /\ (inst[p].pc = "release" /\ inst'[p].pc = "idle")
             => lock_file = File(getpid(p)) /\ lock_file' = NoFile
          /\ (inst[p].pc = "refused" /\ inst'[p] # inst[p])
             => lock_file' = lock_file]_vars

\* C27: _send_reply is called at most once for a message (a failed reply is
\* not tried again), and never for a message that was unread in the inbox
\* at the first poll, whatever happens to the sequence numbers of the
\* messages between the polls.
C27_OneReplyPerMessage ==
    \A m \in 1..Len(arrived) :
        /\ reply_calls[m] <= 1
        /\ m \in unread_at_first_poll => reply_calls[m] = 0

\* C28: _send_reply is never called for a message whose sender address is
\* the account of the service, in whatever case the address is written; a
\* poll that fetches such a message adds its uid to processed_uids and passes
\* it to no reply.
C28_NoReplyToSelf ==
    [][/\ \A m \in 1..Len(arrived') :
             Lower(arrived'[m]) = Lower(username) => reply_calls'[m] = 0
       /\ (poll_pc = "parse" /\ poll_pc' \in {"loop", "processed"})
          => (Lower(msg_data[1].sender) = Lower(username)
              => /\ Head(email_ids) \in processed_uids'
                 /\ new_emails' = new_emails)]_vars

\* C28 happens: a poll after the first has fetched a message that the
\* account of the service sent (its address written in another case), and
\* the replies of that poll, if any, are done.
C28_Witness ==
    /\ initialized
    /\ poll_pc = "idle"
    /\ new_emails = <<>>
    /\ \E i \in 1..Len(inbox) :
          /\ inbox[i].sender # username
          /\ Lower(inbox[i].sender) = Lower(username)
          /\ inbox[i].seen
          /\ inbox[i].id \notin unread_at_first_poll
          /\ i \in processed_uids \ initial_uids
          /\ inbox[i].id = Len(arrived)
          /\ Len(inbox) = Len(arrived)

\* C29: send_email makes at most retry_attempts SMTP attempts and none for
\* an invalid recipient; what it returns has status success or error,
\* success when an attempt went through and error, with attempts =
\* retry_attempts, when the recipient is valid and every attempt raised.
C29_SendEmailResult ==
    /\ send_call.smtp_attempts <= retry_attempts
    /\ send_call.pc = "returned"
       => /\ send_call.status \in {"success", "error"}
          /\ ~ValidateEmail(send_call.to)
             => send_call.status = "error" /\ send_call.smtp_attempts = 0
          /\ (ValidateEmail(send_call.to) /\ send_call.status = "error")
             => send_call.attempts = retry_attempts

====
